---- MODULE Spec2Model ----
(***************************************************************************)
(* Model of core-graphics' display.rs: the CGDisplay forwarding methods,   *)
(* the CGDisplayMode handle wrapper declared with foreign_type!, and the   *)
(* native layer they call (reference-counted records, return codes, the    *)
(* list of active displays).                                               *)
(***************************************************************************)
EXTENDS Integers, Sequences, FiniteSets, Bags, TLC

\* ------------------------------------------------------------------ bounds
MaxRecords == 2
MaxWrappers == 3
MaxDisplays == 2

\* --------------------------------------------------------------- constants
Null == 0
kCGNullWindowID == 0
kCGErrorSuccess == 0

\* Codes the native layer answers with (0, kCGErrorFailure, kCGErrorIllegalArgument).
Codes == {kCGErrorSuccess, 1000, 1001}

Ptrs == 1..MaxRecords
DisplayIds == 1..MaxDisplays

\* The CGDisplay values client code calls the methods on (self.id).
Selves == {1, 2}

\* The display-mode descriptions the native layer can hand out.
Modes == << [width |-> 1920, height |-> 1080, pixel_width |-> 3840,
             pixel_height |-> 2160, refresh_rate |-> 60],
            [width |-> 1280, height |-> 720, pixel_width |-> 1280,
             pixel_height |-> 800, refresh_rate |-> 50] >>

VARIABLES
    records,    \* native heap: pointer -> reference-counted record
    wrappers,   \* bag of live owning wrappers (CGDisplayMode, CGImage, CFArray)
    active,     \* the window server's list of active displays
    countSeen,  \* count reported by the last active_display_count, while the list is unchanged
    aborted,    \* the process was killed by a native runtime error
    last        \* the last operation invoked: its native calls and its outcome

vars == <<records, wrappers, active, countSeen, aborted, last>>

None == [tag |-> "None"]
Unit == [tag |-> "Unit"]
Abort == [tag |-> "Abort"]
Some(v) == [tag |-> "Some", val |-> v]
Ok(v) == [tag |-> "Ok", val |-> v]
Err(c) == [tag |-> "Err", val |-> c]
Value(v) == [tag |-> "Value", val |-> v]

Call(fn, arg, ret) == [fn |-> fn, arg |-> arg, ret |-> ret]
\* One invocation: the operation, what it was invoked on (the receiver, or the
\* argument it takes by value), the native calls it made in order, its outcome.
Op(op, recv, calls, result) == [op |-> op, recv |-> recv, calls |-> calls, result |-> result]

CGDisplay(id) == [id |-> id]
Static == [static |-> TRUE]

\* ------------------------------------------------------------ native layer
NoRecord == [kind |-> "none", rc |-> 0, frees |-> 0, mode |-> 0]

Allocated(recs) == {p \in Ptrs : recs[p].kind # "none"}

\* A Copy/Create call answers NULL or a record not handed out before, whose one
\* reference belongs to the caller.
NativeCreate(recs) ==
    {Null} \cup (IF Allocated(recs) = Ptrs THEN {}
                 ELSE {CHOOSE p \in Ptrs \ Allocated(recs) :
                         \A q \in Ptrs \ Allocated(recs) : p <= q})

Alloc(recs, p, kind, m) ==
    IF p = Null THEN recs
    ELSE [recs EXCEPT ![p] = [kind |-> kind, rc |-> 1, frees |-> 0, mode |-> m]]

\* CFRetain: one more reference; the argument is handed back.
CFRetain(recs, p) == [recs EXCEPT ![p].rc = @ + 1]

\* CFRelease: one reference fewer; the record is freed when none is left.
\* Releasing a record that has no reference left frees it again.
CFRelease(recs, p) ==
    IF recs[p].rc <= 1
    THEN [recs EXCEPT ![p].rc = 0, ![p].frees = @ + 1]
    ELSE [recs EXCEPT ![p].rc = @ - 1]

\* CGDisplayModeRelease is CFRelease, except that NULL is ignored.
CGDisplayModeRelease(recs, p) == IF p = Null THEN recs ELSE CFRelease(recs, p)

\* A getter reports the field of a live display-mode record.  On NULL or on a
\* freed record the read is undefined: some value comes back, or the process dies.
NativeGet(recs, p, field) ==
    IF p # Null /\ recs[p].kind = "CGDisplayMode" /\ recs[p].rc > 0
    THEN {[tag |-> "Value", val |-> Modes[recs[p].mode][field]]}
    ELSE {[tag |-> "Value", val |-> 0], [tag |-> "Abort"]}

CGDisplayModeGetHeight(recs, p) == NativeGet(recs, p, "height")
CGDisplayModeGetWidth(recs, p) == NativeGet(recs, p, "width")
CGDisplayModeGetPixelHeight(recs, p) == NativeGet(recs, p, "pixel_height")
CGDisplayModeGetPixelWidth(recs, p) == NativeGet(recs, p, "pixel_width")
CGDisplayModeGetRefreshRate(recs, p) == NativeGet(recs, p, "refresh_rate")

\* ------------------------------------------------- the native display list
\* The lists of active displays the window server can report: every list of
\* distinct display identifiers.
RECURSIVE ListsOver(_)
ListsOver(S) ==
    {<<>>} \cup UNION {{<<d>> \o l : l \in ListsOver(S \ {d})} : d \in S}

DisplayLists == ListsOver(DisplayIds)

Min(a, b) == IF a < b THEN a ELSE b

\* CGGetActiveDisplayList(max_displays, active_displays, display_count): writes
\* at most max_displays identifiers to the front of the buffer and leaves the
\* rest of the buffer alone.
CGGetActiveDisplayList_fill(max_displays, buf, list) ==
    [i \in 1..Len(buf) |->
        IF i <= Min(max_displays, Len(list)) THEN list[i] ELSE buf[i]]

\* With a NULL buffer the call reports the number of active displays.
CGGetActiveDisplayList_count(list) == Len(list)

\* vec![0; count as usize]
ZeroVec(count) == [i \in 1..count |-> 0]

\* ----------------------------------------------------------------- wrappers
\* ForeignType::from_ptr as foreign_type! generates it: the pointer is stored
\* as given. `via` is a ghost field naming what built the wrapper.
CGDisplayMode_from_ptr(ptr, via) == [type |-> "CGDisplayMode", ptr |-> ptr, via |-> via]

CGImage_from_ptr(ptr) == [type |-> "CGImage", ptr |-> ptr, via |-> "CGImage::from_ptr"]

\* TCFType::wrap_under_create_rule: the reference is taken over, not retained.
wrap_under_create_rule(ptr) ==
    [type |-> "CFArray", ptr |-> ptr, via |-> "wrap_under_create_rule"]

Live == BagToSet(wrappers)
NumLive == BagCardinality(wrappers)
LiveOn(p) == BagCardinality([w \in {v \in Live : v.ptr = p} |-> wrappers[w]])

Adopt(result) ==
    IF result.tag = "Some" THEN wrappers (+) SetToBag({result.val}) ELSE wrappers

Room(result) == result.tag = "Some" => NumLive < MaxWrappers

\* ---------------------------------------------- optional-returning operations
\* Faulty variant: the null check is left out.
display_mode_ret_unchecked(mode_ref) ==
    Some(CGDisplayMode_from_ptr(mode_ref, "display_mode"))

display_mode_ret(mode_ref) ==
    IF mode_ref # Null
    THEN Some(CGDisplayMode_from_ptr(mode_ref, "display_mode"))
    ELSE None

\* Faulty variant: the null check is left out.
image_ret_unchecked(image_ref) == Some(CGImage_from_ptr(image_ref))

image_ret(image_ref) ==
    IF image_ref # Null THEN Some(CGImage_from_ptr(image_ref)) ELSE None

screenshot_ret(image_ref) ==
    IF image_ref # Null THEN Some(CGImage_from_ptr(image_ref)) ELSE None

screenshot_from_windows_ret(image_ref) ==
    IF image_ref # Null
    THEN Some(CGImage_from_ptr(image_ref))
    ELSE None

window_list_info_ret(array_ref) ==
    IF array_ref # Null
    THEN Some(wrap_under_create_rule(array_ref))
    ELSE None

display_mode(id) ==
    /\ ~aborted
    /\ \E mode_ref \in NativeCreate(records), m \in 1..Len(Modes) :
         /\ mode_ref = Null => m = 1
         /\ Room(display_mode_ret(mode_ref))
         /\ records' = Alloc(records, mode_ref, "CGDisplayMode", m)
         /\ wrappers' = Adopt(display_mode_ret(mode_ref))
         /\ last' = Op("display_mode", CGDisplay(id),
                       <<Call("CGDisplayCopyDisplayMode", id, mode_ref)>>,
                       display_mode_ret(mode_ref))
    /\ UNCHANGED <<active, countSeen, aborted>>

image(id) ==
    /\ ~aborted
    /\ \E image_ref \in NativeCreate(records) :
         /\ Room(image_ret(image_ref))
         /\ records' = Alloc(records, image_ref, "CGImage", 0)
         /\ wrappers' = Adopt(image_ret(image_ref))
         /\ last' = Op("image", CGDisplay(id), <<Call("CGDisplayCreateImage", id, image_ref)>>,
                       image_ret(image_ref))
    /\ UNCHANGED <<active, countSeen, aborted>>

screenshot(window_id) ==
    /\ ~aborted
    /\ \E image_ref \in NativeCreate(records) :
         /\ Room(screenshot_ret(image_ref))
         /\ records' = Alloc(records, image_ref, "CGImage", 0)
         /\ wrappers' = Adopt(screenshot_ret(image_ref))
         /\ last' = Op("screenshot", Static,
                       <<Call("CGWindowListCreateImage", window_id, image_ref)>>,
                       screenshot_ret(image_ref))
    /\ UNCHANGED <<active, countSeen, aborted>>

\* `windows` is passed by value: it is lent to the native call
\* (as_concrete_TypeRef) and dropped, hence released, when the function returns.
screenshot_from_windows(windows) ==
    /\ ~aborted
    /\ windows \in Live
    /\ windows.type = "CFArray"
    /\ \E image_ref \in NativeCreate(records) :
         /\ records' = CFRelease(Alloc(records, image_ref, "CGImage", 0), windows.ptr)
         /\ wrappers' = (wrappers (-) SetToBag({windows}))
                           (+) (IF screenshot_from_windows_ret(image_ref).tag = "Some"
                                THEN SetToBag({screenshot_from_windows_ret(image_ref).val})
                                ELSE EmptyBag)
         /\ last' = Op("screenshot_from_windows", windows,
                       <<Call("CGWindowListCreateImageFromArray", windows.ptr, image_ref),
                         Call("CFRelease", windows.ptr, Null)>>,
                       screenshot_from_windows_ret(image_ref))
    /\ UNCHANGED <<active, countSeen, aborted>>

unwrap_or(opt, default) == IF opt.tag = "Some" THEN opt.val ELSE default

window_list_info(relative_to_window) ==
    /\ ~aborted
    /\ \E array_ref \in NativeCreate(records) :
         /\ Room(window_list_info_ret(array_ref))
         /\ records' = Alloc(records, array_ref, "CFArray", 0)
         /\ wrappers' = Adopt(window_list_info_ret(array_ref))
         /\ last' = Op("window_list_info", Static,
                       <<Call("CGWindowListCopyWindowInfo",
                              unwrap_or(relative_to_window, kCGNullWindowID), array_ref)>>,
                       window_list_info_ret(array_ref))
    /\ UNCHANGED <<active, countSeen, aborted>>


\* ------------------------------------------------ the CGDisplayMode wrapper
IsMode(w) == w \in Live /\ w.type = "CGDisplayMode"

\* Faulty variant: the pointer is copied without a retain.
clone_without_retain(w) ==
    /\ ~aborted
    /\ IsMode(w)
    /\ NumLive < MaxWrappers
    /\ wrappers' = wrappers (+) SetToBag({CGDisplayMode_from_ptr(w.ptr, "clone")})
    /\ last' = Op("clone", w, <<>>, Value(CGDisplayMode_from_ptr(w.ptr, "clone")))
    /\ UNCHANGED <<records, active, countSeen, aborted>>

\* fn clone = |p| CFRetain(p as *const _) as *mut _;  the handle CFRetain gives
\* back is wrapped with from_ptr.  CFRetain(NULL) is a runtime error that ends
\* the process.
clone(w) ==
    /\ ~aborted
    /\ IsMode(w)
    /\ IF w.ptr = Null
       THEN /\ aborted' = TRUE
            /\ last' = Op("clone", w, <<Call("CFRetain", Null, Null)>>, Abort)
            /\ UNCHANGED <<records, wrappers>>
       ELSE /\ NumLive < MaxWrappers
            /\ records' = CFRetain(records, w.ptr)
            /\ wrappers' = wrappers (+) SetToBag({CGDisplayMode_from_ptr(w.ptr, "clone")})
            /\ last' = Op("clone", w, <<Call("CFRetain", w.ptr, w.ptr)>>,
                          Value(CGDisplayMode_from_ptr(w.ptr, "clone")))
            /\ UNCHANGED aborted
    /\ UNCHANGED <<active, countSeen>>

\* Faulty variant: the wrapper goes away without the release.
drop_without_release(w) ==
    /\ ~aborted
    /\ IsMode(w)
    /\ wrappers' = wrappers (-) SetToBag({w})
    /\ last' = Op("drop", w, <<>>, Unit)
    /\ UNCHANGED <<records, active, countSeen, aborted>>

\* fn drop = CGDisplayModeRelease;
drop(w) ==
    /\ ~aborted
    /\ IsMode(w)
    /\ records' = CGDisplayModeRelease(records, w.ptr)
    /\ wrappers' = wrappers (-) SetToBag({w})
    /\ last' = Op("drop", w, <<Call("CGDisplayModeRelease", w.ptr, Null)>>, Unit)
    /\ UNCHANGED <<active, countSeen, aborted>>

\* Dropping a CGImage or a CFArray releases its one reference (CFRelease of
\* NULL is a runtime error that ends the process).
drop_other(w) ==
    /\ ~aborted
    /\ w \in Live
    /\ w.type # "CGDisplayMode"
    /\ records' = IF w.ptr = Null THEN records ELSE CFRelease(records, w.ptr)
    /\ aborted' = (w.ptr = Null)
    /\ wrappers' = wrappers (-) SetToBag({w})
    /\ last' = Op("drop_other", w, <<Call("CFRelease", w.ptr, Null)>>, Unit)
    /\ UNCHANGED <<active, countSeen>>

\* CGDisplayMode::from_ptr called by client code on a handle it got from the
\* native layer itself (it owns the one reference, or the handle is NULL).
from_ptr ==
    /\ ~aborted
    /\ NumLive < MaxWrappers
    /\ \E mode_ref \in NativeCreate(records), m \in 1..Len(Modes) :
         /\ mode_ref = Null => m = 1
         /\ records' = Alloc(records, mode_ref, "CGDisplayMode", m)
         /\ wrappers' = wrappers (+) SetToBag({CGDisplayMode_from_ptr(mode_ref, "from_ptr")})
         /\ last' = Op("from_ptr", Static, <<>>, Value(CGDisplayMode_from_ptr(mode_ref, "from_ptr")))
    /\ UNCHANGED <<active, countSeen, aborted>>

\* The accessors forward to the getter through as_ptr(); `as u64` widens a
\* size_t and changes no value.
Accessor(op, fn, w, outcome) ==
    /\ ~aborted
    /\ aborted' = (outcome = Abort)
    /\ last' = Op(op, w, <<Call(fn, w.ptr, outcome)>>, outcome)
    /\ UNCHANGED <<records, wrappers, active, countSeen>>

\* Faulty variant: height() forwards to the width getter.
height_reads_width(w) ==
    /\ IsMode(w)
    /\ \E o \in CGDisplayModeGetWidth(records, w.ptr) :
         Accessor("height", "CGDisplayModeGetWidth", w, o)

height(w) ==
    /\ IsMode(w)
    /\ \E o \in CGDisplayModeGetHeight(records, w.ptr) :
         Accessor("height", "CGDisplayModeGetHeight", w, o)

width(w) ==
    /\ IsMode(w)
    /\ \E o \in CGDisplayModeGetWidth(records, w.ptr) :
         Accessor("width", "CGDisplayModeGetWidth", w, o)

pixel_height(w) ==
    /\ IsMode(w)
    /\ \E o \in CGDisplayModeGetPixelHeight(records, w.ptr) :
         Accessor("pixel_height", "CGDisplayModeGetPixelHeight", w, o)

pixel_width(w) ==
    /\ IsMode(w)
    /\ \E o \in CGDisplayModeGetPixelWidth(records, w.ptr) :
         Accessor("pixel_width", "CGDisplayModeGetPixelWidth", w, o)

refresh_rate(w) ==
    /\ IsMode(w)
    /\ \E o \in CGDisplayModeGetRefreshRate(records, w.ptr) :
         Accessor("refresh_rate", "CGDisplayModeGetRefreshRate", w, o)

\* ------------------------------------------------ code-returning operations
Points == {[x |-> 0, y |-> 0], [x |-> 10, y |-> 20]}

\* `connected as boolean_t`
as_boolean_t(b) == IF b THEN 1 ELSE 0

\* Faulty variant: a failed call is tried a second time.
hide_cursor_retrying(id) ==
    /\ ~aborted
    /\ \E first \in Codes, result \in Codes :
         last' = Op("hide_cursor", CGDisplay(id),
                    IF first = 0
                    THEN <<Call("CGDisplayHideCursor", id, first)>>
                    ELSE <<Call("CGDisplayHideCursor", id, first),
                           Call("CGDisplayHideCursor", id, result)>>,
                    IF first = 0 \/ result = 0 THEN Ok(Unit) ELSE Err(result))
    /\ UNCHANGED <<records, wrappers, active, countSeen, aborted>>

hide_cursor(id) ==
    /\ ~aborted
    /\ \E result \in Codes :
         last' = Op("hide_cursor", CGDisplay(id), <<Call("CGDisplayHideCursor", id, result)>>,
                    IF result = 0 THEN Ok(Unit) ELSE Err(result))
    /\ UNCHANGED <<records, wrappers, active, countSeen, aborted>>

show_cursor(id) ==
    /\ ~aborted
    /\ \E result \in Codes :
         last' = Op("show_cursor", CGDisplay(id), <<Call("CGDisplayShowCursor", id, result)>>,
                    IF result = 0 THEN Ok(Unit) ELSE Err(result))
    /\ UNCHANGED <<records, wrappers, active, countSeen, aborted>>

move_cursor_to_point(id, point) ==
    /\ ~aborted
    /\ \E result \in Codes :
         last' = Op("move_cursor_to_point", CGDisplay(id),
                    <<Call("CGDisplayMoveCursorToPoint", <<id, point>>, result)>>,
                    IF result = 0 THEN Ok(Unit) ELSE Err(result))
    /\ UNCHANGED <<records, wrappers, active, countSeen, aborted>>

\* Faulty variant: the test of the code is the wrong way round.
warp_mouse_cursor_position_inverted(point) ==
    /\ ~aborted
    /\ \E result \in Codes :
         last' = Op("warp_mouse_cursor_position", Static,
                    <<Call("CGWarpMouseCursorPosition", point, result)>>,
                    IF result # 0 THEN Ok(Unit) ELSE Err(result))
    /\ UNCHANGED <<records, wrappers, active, countSeen, aborted>>

warp_mouse_cursor_position(point) ==
    /\ ~aborted
    /\ \E result \in Codes :
         last' = Op("warp_mouse_cursor_position", Static,
                    <<Call("CGWarpMouseCursorPosition", point, result)>>,
                    IF result = 0 THEN Ok(Unit) ELSE Err(result))
    /\ UNCHANGED <<records, wrappers, active, countSeen, aborted>>

associate_mouse_and_mouse_cursor_position(connected) ==
    /\ ~aborted
    /\ \E result \in Codes :
         last' = Op("associate_mouse_and_mouse_cursor_position", Static,
                    <<Call("CGAssociateMouseAndMouseCursorPosition",
                           as_boolean_t(connected), result)>>,
                    IF result = 0 THEN Ok(Unit) ELSE Err(result))
    /\ UNCHANGED <<records, wrappers, active, countSeen, aborted>>

\* ------------------------------------------------------ display enumeration
\* One call of CGGetActiveDisplayList as the log keeps it: the arguments, the
\* code, and the list the window server held when the call was made.
ListCall(max_displays, buf, display_count, result, list) ==
    [fn |-> "CGGetActiveDisplayList",
     arg |-> [max_displays |-> max_displays, active_displays |-> buf,
              display_count |-> display_count],
     ret |-> result, list |-> list]

\* let mut count = 0; CGGetActiveDisplayList(0, null, &mut count)
active_display_count_ret(result, list) ==
    IF result = 0 THEN Ok(CGGetActiveDisplayList_count(list)) ELSE Err(result)

active_display_count ==
    /\ ~aborted
    /\ \E result \in Codes :
         /\ last' = Op("active_display_count", Static,
                       <<ListCall(0, "null", "count", result, active)>>,
                       active_display_count_ret(result, active))
         /\ countSeen' = IF result = 0
                         THEN Some(active_display_count_ret(result, active).val)
                         ELSE None
    /\ UNCHANGED <<records, wrappers, active, aborted>>

\* Faulty variant: the buffer is reserved but never given its length
\* (Vec::with_capacity instead of vec![0; count]).
active_displays_ret_unfilled(count, result, list) ==
    IF result = 0 THEN Ok(<<>>) ELSE Err(result)

\* The buffer active_displays hands back after a fill that answered `result`.
active_displays_ret(count, result, list) ==
    IF result = 0
    THEN Ok(CGGetActiveDisplayList_fill(count, ZeroVec(count), list))
    ELSE Err(result)

\* Faulty variant: a failed probe counts as zero displays (unwrap_or(0) instead of try!)
\* and the fill is made all the same.
active_displays_ignoring_probe ==
    /\ ~aborted
    /\ \E probe \in Codes, result \in Codes, later \in DisplayLists :
         LET count == IF probe = 0 THEN active_display_count_ret(probe, active).val ELSE 0 IN
         /\ last' = Op("active_displays", Static,
                       <<ListCall(0, "null", "count", probe, active),
                         ListCall(count, "buf", "null", result, later)>>,
                       active_displays_ret(count, result, later))
         /\ active' = later
         /\ countSeen' = IF later = active THEN countSeen ELSE None
    /\ UNCHANGED <<records, wrappers, aborted>>

\* try!(active_display_count()), then the fill.  The window server may change
\* its list between the two calls: `later` is the list at the second call.
active_displays ==
    /\ ~aborted
    /\ \E probe \in Codes, result \in Codes, later \in DisplayLists :
         IF active_display_count_ret(probe, active).tag = "Err"
         THEN /\ later = active
              /\ result = 0
              /\ last' = Op("active_displays", Static,
                            <<ListCall(0, "null", "count", probe, active)>>,
                            active_display_count_ret(probe, active))
              /\ UNCHANGED <<active, countSeen>>
         ELSE LET count == active_display_count_ret(probe, active).val IN
              /\ last' = Op("active_displays", Static,
                            <<ListCall(0, "null", "count", probe, active),
                              ListCall(count, "buf", "null", result, later)>>,
                            active_displays_ret(count, result, later))
              /\ active' = later
              /\ countSeen' = IF later = active THEN countSeen ELSE None
    /\ UNCHANGED <<records, wrappers, aborted>>

\* The window server gains or loses displays.
DisplaysChange ==
    /\ ~aborted
    /\ \E list \in DisplayLists \ {active} : active' = list
    /\ countSeen' = None
    /\ last' = Op("(display reconfiguration)", Static, <<>>, Unit)
    /\ UNCHANGED <<records, wrappers, aborted>>


\* ------------------------------------------------------- property queries
\* CGDisplay::new builds the value; nothing native is called.
new(id) ==
    /\ ~aborted
    /\ last' = Op("new", Static, <<>>, Value(CGDisplay(id)))
    /\ UNCHANGED <<records, wrappers, active, countSeen, aborted>>

\* CGDisplay::new(CGMainDisplayID())
main ==
    /\ ~aborted
    /\ \E id \in DisplayIds :
         last' = Op("main", Static, <<Call("CGMainDisplayID", <<>>, id)>>, Value(CGDisplay(id)))
    /\ UNCHANGED <<records, wrappers, active, countSeen, aborted>>

\* The queries that answer `native(self.id) != 0`, with the function each calls.
BoolQueries ==
    [is_active |-> "CGDisplayIsActive",
     is_always_in_mirror_set |-> "CGDisplayIsAlwaysInMirrorSet",
     is_asleep |-> "CGDisplayIsAsleep",
     is_builtin |-> "CGDisplayIsBuiltin",
     is_in_hw_mirror_set |-> "CGDisplayIsInHWMirrorSet",
     is_in_mirror_set |-> "CGDisplayIsInMirrorSet",
     is_main |-> "CGDisplayIsMain",
     is_online |-> "CGDisplayIsOnline",
     uses_open_gl_acceleration |-> "CGDisplayUsesOpenGLAcceleration",
     is_stereo |-> "CGDisplayIsStereo"]

\* The queries that hand the native value back as it is.
ValueQueries ==
    [bounds |-> "CGDisplayBounds",
     mirrors_display |-> "CGDisplayMirrorsDisplay",
     primary_display |-> "CGDisplayPrimaryDisplay",
     rotation |-> "CGDisplayRotation",
     screen_size |-> "CGDisplayScreenSize",
     serial_number |-> "CGDisplaySerialNumber",
     unit_number |-> "CGDisplayUnitNumber",
     vendor_number |-> "CGDisplayVendorNumber",
     model_number |-> "CGDisplayModelNumber",
     pixels_high |-> "CGDisplayPixelsHigh",
     pixels_wide |-> "CGDisplayPixelsWide"]

bool_query(op, id) ==
    /\ ~aborted
    /\ \E raw \in {0, 1} :
         last' = Op(op, CGDisplay(id), <<Call(BoolQueries[op], id, raw)>>, Value(raw # 0))
    /\ UNCHANGED <<records, wrappers, active, countSeen, aborted>>

value_query(op, id) ==
    /\ ~aborted
    /\ \E raw \in {0, 1} :
         last' = Op(op, CGDisplay(id), <<Call(ValueQueries[op], id, raw)>>, Value(raw))
    /\ UNCHANGED <<records, wrappers, active, countSeen, aborted>>

\* ------------------------------------------------------------ specification
Init ==
    /\ records = [p \in Ptrs |-> NoRecord]
    /\ wrappers = EmptyBag
    /\ active = [i \in DisplayIds |-> i]
    /\ countSeen = None
    /\ aborted = FALSE
    /\ last = Op("(start)", Static, <<>>, Unit)

\* Operations on owned handles: the optional-returning constructors and the
\* CGDisplayMode wrapper.
NextHandles ==
    \/ \E id \in Selves : display_mode(id)
    \/ \E id \in Selves : image(id)
    \/ \E window_id \in {kCGNullWindowID, 1} : screenshot(window_id)
    \/ \E windows \in Live : screenshot_from_windows(windows)
    \/ \E relative_to_window \in {None, Some(1)} : window_list_info(relative_to_window)
    \/ \E w \in Live : clone(w)
    \/ \E w \in Live : drop(w)
    \/ \E w \in Live : drop_other(w)
    \/ from_ptr
    \/ \E w \in Live : height(w)
    \/ \E w \in Live : width(w)
    \/ \E w \in Live : pixel_height(w)
    \/ \E w \in Live : pixel_width(w)
    \/ \E w \in Live : refresh_rate(w)

\* Stateless forwarding calls, and the window server changing its display list.
NextCalls ==
    \/ \E id \in Selves : new(id)
    \/ main
    \/ \E id \in Selves : hide_cursor(id)
    \/ \E id \in Selves : show_cursor(id)
    \/ \E id \in Selves, point \in Points : move_cursor_to_point(id, point)
    \/ \E point \in Points : warp_mouse_cursor_position(point)
    \/ \E connected \in BOOLEAN : associate_mouse_and_mouse_cursor_position(connected)
    \/ active_display_count
    \/ active_displays
    \/ \E op \in DOMAIN BoolQueries, id \in Selves : bool_query(op, id)
    \/ \E op \in DOMAIN ValueQueries, id \in Selves : value_query(op, id)
    \/ DisplaysChange

Next == NextHandles \/ NextCalls

Spec == Init /\ [][Next]_vars

SpecHandles == Init /\ [][NextHandles]_vars

SpecCalls == Init /\ [][NextCalls]_vars

\* Every operation, without the interleavings that change nothing: the handle
\* operations read and write only records, wrappers and aborted, the stateless
\* calls only active and countSeen, so each family is run while the other
\* family's variables are as Init left them.
HeapUntouched == records = [p \in Ptrs |-> NoRecord] /\ wrappers = EmptyBag

DisplaysUntouched == active = [i \in DisplayIds |-> i] /\ countSeen = None

NextOps ==
    \/ \E id \in Selves : HeapUntouched /\ new(id)
    \/ HeapUntouched /\ main
    \/ \E id \in Selves : HeapUntouched /\ hide_cursor(id)
    \/ \E id \in Selves : HeapUntouched /\ show_cursor(id)
    \/ \E id \in Selves, point \in Points : HeapUntouched /\ move_cursor_to_point(id, point)
    \/ \E point \in Points : HeapUntouched /\ warp_mouse_cursor_position(point)
    \/ \E connected \in BOOLEAN :
         HeapUntouched /\ associate_mouse_and_mouse_cursor_position(connected)
    \/ HeapUntouched /\ active_display_count
    \/ HeapUntouched /\ active_displays
    \/ \E op \in DOMAIN BoolQueries, id \in Selves : HeapUntouched /\ bool_query(op, id)
    \/ \E op \in DOMAIN ValueQueries, id \in Selves : HeapUntouched /\ value_query(op, id)
    \/ HeapUntouched /\ DisplaysChange
    \/ \E id \in Selves : DisplaysUntouched /\ display_mode(id)
    \/ \E id \in Selves : DisplaysUntouched /\ image(id)
    \/ \E window_id \in {kCGNullWindowID, 1} : DisplaysUntouched /\ screenshot(window_id)
    \/ \E windows \in Live : DisplaysUntouched /\ screenshot_from_windows(windows)
    \/ \E relative_to_window \in {None, Some(1)} :
         DisplaysUntouched /\ window_list_info(relative_to_window)
    \/ \E w \in Live : DisplaysUntouched /\ clone(w)
    \/ \E w \in Live : DisplaysUntouched /\ drop(w)
    \/ \E w \in Live : DisplaysUntouched /\ drop_other(w)
    \/ DisplaysUntouched /\ from_ptr
    \/ \E w \in Live : DisplaysUntouched /\ height(w)
    \/ \E w \in Live : DisplaysUntouched /\ width(w)
    \/ \E w \in Live : DisplaysUntouched /\ pixel_height(w)
    \/ \E w \in Live : DisplaysUntouched /\ pixel_width(w)
    \/ \E w \in Live : DisplaysUntouched /\ refresh_rate(w)

SpecOps == Init /\ [][NextOps]_vars


\* =================================================================== claims
ModeRecords == {p \in Ptrs : records[p].kind = "CGDisplayMode"}
ModeWrappers == {w \in Live : w.type = "CGDisplayMode"}
AccessorOps == {"height", "width", "pixel_height", "pixel_width", "refresh_rate"}
OptionalOps == {"display_mode", "image", "screenshot", "screenshot_from_windows",
                "window_list_info"}
CountingFns == {"CFRetain", "CFRelease", "CGDisplayModeRelease"}
Range(f) == {f[i] : i \in DOMAIN f}

\* C1: a native display-mode record is freed exactly once, and exactly when the
\* last wrapper aliasing it has been dropped: while a wrapper is live it has
\* never been freed, once none is live it has been freed once, by a drop.
C1_FreedOnceAtLastDrop ==
    /\ [](\A p \in ModeRecords :
           records[p].frees = (IF LiveOn(p) = 0 THEN 1 ELSE 0))
    /\ [][\A p \in Ptrs :
            records'[p].frees # records[p].frees =>
              /\ records[p].kind = "CGDisplayMode" => last'.op = "drop"
              /\ last'.recv.ptr = p
              /\ records'[p].frees = 1]_vars

\* C1 witness: the wrapper dropped last was a clone, the wrapper adopted by
\* display_mode having been dropped before it, and the record is now freed.
C1_Witness ==
    /\ last.op = "drop"
    /\ last.recv.via = "clone"
    /\ records[last.recv.ptr].frees = 1
    /\ LiveOn(last.recv.ptr) = 0

\* C2: the reference count of a display-mode record is at least the number of
\* live wrappers on it; clone makes exactly one CFRetain call, adds one to the
\* count and one wrapper on the same record; drop makes exactly one
\* CGDisplayModeRelease call and takes one from the count; and while a wrapper
\* is live its record is unfreed and its getters answer.
C2_CountCoversWrappers ==
    /\ [](\A p \in ModeRecords : records[p].rc >= LiveOn(p))
    /\ [](\A w \in ModeWrappers :
           w.ptr # Null =>
             /\ records[w.ptr].frees = 0
             /\ \A o \in CGDisplayModeGetWidth(records, w.ptr) : o.tag = "Value")
    /\ [][/\ (last'.op = "clone" /\ last'.recv.ptr # Null) =>
               LET p == last'.recv.ptr IN
               /\ last'.calls = <<Call("CFRetain", p, p)>>
               /\ records'[p].rc = records[p].rc + 1
               /\ last'.result.val.ptr = p
               /\ wrappers' = wrappers (+) SetToBag({last'.result.val})
          /\ (last'.op = "drop" /\ last'.recv.ptr # Null) =>
               LET p == last'.recv.ptr IN
               /\ last'.calls = <<Call("CGDisplayModeRelease", p, Null)>>
               /\ records'[p].rc = records[p].rc - 1
               /\ wrappers' = wrappers (-) SetToBag({last'.recv})]_vars

\* C2 witness: a clone has just been dropped while the wrapper adopted by
\* display_mode is still live on the same record, which keeps its one reference.
C2_Witness ==
    /\ last.op = "drop"
    /\ last.recv.via = "clone"
    /\ \E w \in Live : w.ptr = last.recv.ptr /\ w.via = "display_mode"
    /\ records[last.recv.ptr].rc = 1
    /\ records[last.recv.ptr].frees = 0

\* C4 as claimed: an optional-returning operation whose native call answers NULL
\* returns None and performs no retain or release; one whose native call
\* answers a pointer returns Some wrapper of exactly that pointer, without a
\* further retain.
C4_Claim ==
    last.op \in OptionalOps =>
      LET ret == last.calls[1].ret IN
      /\ ret = Null =>
           /\ last.result = None
           /\ \A i \in DOMAIN last.calls : last.calls[i].fn \notin CountingFns
      /\ ret # Null =>
           /\ last.result.tag = "Some"
           /\ last.result.val.ptr = ret
           /\ last.result.val \in Live
           /\ records[ret].rc = 1
           /\ \A i \in DOMAIN last.calls : last.calls[i].fn # "CFRetain"

\* The wrapper an operation consumed: screenshot_from_windows takes its CFArray
\* by value.
C4_Consumed(o) ==
    IF o.op = "screenshot_from_windows" THEN SetToBag({o.recv}) ELSE EmptyBag

\* C4 amended: on NULL the operation returns None and adds no wrapper; on a
\* pointer it returns Some wrapper of exactly that pointer, whose record keeps
\* the single reference the native call handed out (no retain).  The native
\* call is the only call made, except that screenshot_from_windows also
\* releases, once, the windows array that was passed to it by value.
C4_AdoptsOrNone ==
    [][last'.op \in OptionalOps =>
         LET ret == last'.calls[1].ret
             rest == wrappers (-) C4_Consumed(last')
         IN
         /\ ret = Null => last'.result = None /\ wrappers' = rest
         /\ ret # Null =>
              /\ last'.result.tag = "Some"
              /\ last'.result.val.ptr = ret
              /\ wrappers' = rest (+) SetToBag({last'.result.val})
              /\ records[ret].kind = "none"
              /\ records'[ret].rc = 1
         /\ \A p \in Ptrs \ {ret} :
              records'[p].rc = records[p].rc
                - (IF last'.op = "screenshot_from_windows" /\ last'.recv.ptr = p THEN 1 ELSE 0)
         /\ IF last'.op = "screenshot_from_windows"
            THEN /\ Len(last'.calls) = 2
                 /\ last'.calls[2] = Call("CFRelease", last'.recv.ptr, Null)
            ELSE Len(last'.calls) = 1]_vars

\* C4 witness: screenshot_from_windows got NULL from the native call, returned
\* None, and the array it was handed is released and gone.
C4_Witness ==
    /\ last.op = "screenshot_from_windows"
    /\ last.result = None
    /\ records[last.recv.ptr].frees = 1

C8_AccessorsArePureReads ==
    [][(last'.op \in AccessorOps /\ last'.recv.ptr # Null) =>
         /\ last'.result = Value(Modes[records[last'.recv.ptr].mode][last'.op])
         /\ Len(last'.calls) = 1
         /\ last'.calls[1].arg = last'.recv.ptr
         /\ records' = records
         /\ wrappers' = wrappers
         /\ last'.recv \in Live
         /\ ~aborted']_vars

\* C8 witness: height() of a wrapper on a 1920 x 1080 mode came back as 1080,
\* with the wrapper still live.
C8_Witness ==
    /\ last.op = "height"
    /\ last.result = Value(1080)
    /\ last.recv \in Live
    /\ Modes[records[last.recv.ptr].mode].width = 1920


CodeOps == {"hide_cursor", "show_cursor", "move_cursor_to_point",
            "warp_mouse_cursor_position", "associate_mouse_and_mouse_cursor_position",
            "active_display_count"}

\* C3: a code-returning operation succeeds exactly when the native code is 0,
\* and a non-zero code c comes back as the failure value c, unchanged.
C3_CodeSurfacedVerbatim ==
    last.op \in CodeOps =>
      LET c == last.calls[1].ret IN
      /\ last.result.tag \in {"Ok", "Err"}
      /\ last.result.tag = "Ok" <=> c = 0
      /\ c # 0 => last.result = Err(c)

\* C3 witness: a cursor-control call that met the native code 1000 failed with 1000.
C3_Witness ==
    /\ last.op = "hide_cursor"
    /\ last.calls[1].ret = 1000
    /\ last.result = Err(1000)

\* C6: a successful active_displays returns as many identifiers as the size
\* probe of that same call counted; and when the native layer has reported the
\* same list ever since a successful active_display_count, that many identifiers
\* as active_display_count reported, and they are that list in order.
C6_LengthMatchesCount ==
    (last.op = "active_displays" /\ last.result.tag = "Ok") =>
      /\ Len(last.result.val) = CGGetActiveDisplayList_count(last.calls[1].list)
      /\ countSeen # None =>
           /\ Len(last.result.val) = countSeen.val
           /\ last.result.val = active

\* C6 witness: active_display_count reported two displays, the list did not
\* change, and active_displays then returned two identifiers.
C6_Witness ==
    /\ last.op = "active_displays"
    /\ last.result.tag = "Ok"
    /\ countSeen = Some(2)
    /\ Len(last.result.val) = 2

\* C7 as claimed: every operation that goes to the operating system makes
\* exactly one native call.
C7_Claim ==
    (last.op \notin {"(start)", "(display reconfiguration)", "new", "from_ptr"}) =>
      Len(last.calls) = 1

\* C7 amended: no operation repeats a native call, and each makes exactly one,
\* with these exceptions: CGDisplay::new and from_ptr make none;
\* active_displays makes the size probe and, only when the probe answered 0,
\* one fill call after it; screenshot_from_windows makes its native call and
\* then releases the array it took by value.
C7_OneTripEach ==
    LET n == Len(last.calls) IN
    CASE last.op \in {"(start)", "(display reconfiguration)", "new", "from_ptr"} -> n = 0
      [] last.op = "active_displays" ->
           /\ last.calls[1].arg.active_displays = "null"
           /\ IF last.calls[1].ret = 0
              THEN n = 2 /\ last.calls[2].arg.active_displays = "buf"
              ELSE n = 1
      [] last.op = "screenshot_from_windows" ->
           /\ n = 2
           /\ last.calls[1].fn = "CGWindowListCreateImageFromArray"
           /\ last.calls[2].fn = "CFRelease"
      [] OTHER -> n = 1

\* C7 witness: active_displays made two native calls, probe then fill, and succeeded.
C7_Witness ==
    /\ last.op = "active_displays"
    /\ Len(last.calls) = 2
    /\ last.result.tag = "Ok"

\* C9: active_displays probes first; a probe that fails with c ends the call
\* with failure c and no fill; after a good probe the fill is made with the
\* probed count, a fill that fails with d ends the call with failure d, and a
\* list comes back only when both answered 0.
C9_ProbeThenFill ==
    last.op = "active_displays" =>
      LET probe == last.calls[1] IN
      /\ probe.arg = [max_displays |-> 0, active_displays |-> "null", display_count |-> "count"]
      /\ probe.ret # 0 => Len(last.calls) = 1 /\ last.result = Err(probe.ret)
      /\ probe.ret = 0 =>
           /\ Len(last.calls) = 2
           /\ last.calls[2].arg = [max_displays |-> Len(probe.list),
                                   active_displays |-> "buf", display_count |-> "null"]
           /\ last.calls[2].ret # 0 => last.result = Err(last.calls[2].ret)
           /\ last.calls[2].ret = 0 => last.result.tag = "Ok"
      /\ last.result.tag = "Ok" => \A i \in DOMAIN last.calls : last.calls[i].ret = 0

\* C9 witness: the probe answered 0, the fill answered 1001, and the call failed with 1001.
C9_Witness ==
    /\ last.op = "active_displays"
    /\ Len(last.calls) = 2
    /\ last.calls[2].ret = 1001
    /\ last.result = Err(1001)

\* C10: the identifiers a successful active_displays returns are exactly the
\* displays that were active when the fill call was made.
C10_Claim ==
    (last.op = "active_displays" /\ last.result.tag = "Ok") =>
      Range(last.result.val) = Range(last.calls[2].list)

====
